---- MODULE Spec2Model ----
(***************************************************************************)
(* The weather ELT pipeline: extract.py (provider fetch, raw artifacts),   *)
(* load.py (relational loader), transform.py (derived tables) and the      *)
(* orchestrator run_pipeline of main.py.                                   *)
(*                                                                         *)
(* Values: temperatures, wind speeds and precipitation are integers in     *)
(* tenths of their unit (45.0 degrees is 450).  A nullable column holds a  *)
(* set: {} is NULL/None, {v} is the value v, so that a comparison with     *)
(* NULL is false as it is in SQL and in pandas.  A JSON object is a        *)
(* function from its keys; a JSON list is a sequence.                      *)
(***************************************************************************)
EXTENDS Integers, Sequences, FiniteSets, Bags, TLC

(* ----------------------------- bounds --------------------------------- *)

\* How many cities of config.CITIES one run is given.
NumCities == 2

\* How many store (sqlite) errors may be injected in one behaviour.
MaxFaults == 1

\* How many direct calls of the loaders and of run_transformations the
\* library specification makes.
MaxCalls == 4

\* How many direct calls the table specification makes.
MaxTableCalls == 3

(* ------------------------------ state ---------------------------------- *)

VARIABLES
    pc,               \* where run_pipeline (or the library caller) stands
    ci,               \* extract_weather_data: index of the city in hand
    li,               \* load_data_files: position in the loop in hand
    now,              \* the wall clock, in seconds: a run is taken within
                      \* one second, when artifact names could collide
    data,             \* current_data / forecast_data of the loop body
    files,            \* raw_data/: file name -> content
    results,          \* extract_weather_data's results: per kind, the
                      \* (city, file_path) items in insertion order
    current_weather,  \* committed rows of the base tables, in id order
    forecast,
    raw_data_files,
    ld,               \* load_forecast_data's frame: its open transaction
    daily_aggregates, \* derived tables: bags of rows
    temperature_anomalies,
    extreme_weather_events,
    sqlite_master,    \* the derived tables that exist
    snap,             \* the store as run_transformations found it
    log,              \* what has been done, in order
    faults,           \* store and file errors injected so far
    conns,            \* how many sqlite connections are open
    calls,            \* direct calls made by the library caller
    mode              \* who calls: run_pipeline (on config.CITIES or on
                      \* the test configuration), or the library caller

(* ------------------------- strings as sequences ------------------------ *)

\* str.lower() on the characters the configured names use.
Lower(ch) ==
    CASE ch = "L" -> "l" [] ch = "N" -> "n" [] ch = "Y" -> "y"
      [] ch = "T" -> "t" [] ch = "S" -> "s" [] ch = "P" -> "p"
      [] OTHER -> ch

\* city.split(',')[0]: the characters before the first comma.
RECURSIVE BeforeComma(_)
BeforeComma(s) ==
    IF s = <<>> \/ Head(s) = "," THEN <<>>
    ELSE <<Head(s)>> \o BeforeComma(Tail(s))

\* city.split(',')[0].lower().replace(' ', '_')
CleanCityName(city) ==
    LET base == BeforeComma(city)
    IN [i \in 1..Len(base) |->
            IF Lower(base[i]) = " " THEN "_" ELSE Lower(base[i])]

\* config.CITIES, each string as its sequence of characters.
CITIES ==
    << <<"L","o","n","d","o","n",",","u","k">>,
       <<"N","e","w"," ","Y","o","r","k",",","u","s">>,
       <<"T","o","k","y","o",",","j","p">>,
       <<"S","y","d","n","e","y",",","a","u">>,
       <<"P","a","r","i","s",",","f","r">> >>

\* The one-city configuration of the end-to-end test.
Testville == <<"T","e","s","t","v","i","l","l","e",",","t","v">>

\* The list run_pipeline hands to extract_weather_data: a bounded prefix
\* of config.CITIES, or the test configuration.
Cities == IF mode = "test" THEN <<Testville>> ELSE SubSeq(CITIES, 1, NumCities)

Kinds == {"current", "forecast"}

(* ------------------------------ JSON ----------------------------------- *)

None == {}
Some(v) == {v}

EmptyObj == <<>>

\* dict.get(key, default)
Get(obj, key, default) == IF key \in DOMAIN obj THEN obj[key] ELSE default

\* dict.get(key): None when the key is absent.
GetOpt(obj, key) == IF key \in DOMAIN obj THEN Some(obj[key]) ELSE None

SecondsPerDay == 24 * 60 * 60

\* datetime.fromtimestamp(dt): a calendar timestamp, here day number and
\* second of the day.
FromTimestamp(dt) == [day |-> dt \div SecondsPerDay, sec |-> dt % SecondsPerDay]

\* SQL date(forecast_time): the date component.
DateOf(ts) == ts.day

(* --------------------------- the provider ------------------------------ *)

\* What the provider answers for a city: its name and country code.
ProviderName(i) ==
    IF mode = "test" THEN "Testville" ELSE
    CASE i = 1 -> "London" [] i = 2 -> "New York" [] i = 3 -> "Tokyo"
      [] i = 4 -> "Sydney" [] OTHER -> "Paris"

ProviderCountry(i) ==
    IF mode = "test" THEN "TV" ELSE
    CASE i = 1 -> "GB" [] i = 2 -> "US" [] i = 3 -> "JP"
      [] i = 4 -> "AU" [] OTHER -> "FR"

\* Observation responses: a complete one, one without any optional or
\* nested block, and one whose weather list is empty.
CurrentFull(i) ==
    [name |-> ProviderName(i), sys |-> [country |-> ProviderCountry(i)],
     weather |-> <<[main |-> "Clear"]>>,
     main |-> [temp |-> 200, humidity |-> 50], wind |-> [speed |-> 50],
     rain |-> [1h |-> 5], dt |-> SecondsPerDay]

CurrentBare(i) == [name |-> ProviderName(i)]

CurrentEmptyWeather(i) ==
    [name |-> ProviderName(i), weather |-> <<>>,
     main |-> [temp |-> 200, humidity |-> 50], dt |-> SecondsPerDay]

\* Forecast slots: a mild one, an extreme-heat one (the next day), one
\* with no nested block at all, and one whose weather list is empty.
SlotMild ==
    [dt |-> SecondsPerDay, weather |-> <<[main |-> "Clouds"]>>,
     main |-> [temp |-> 200, humidity |-> 60], wind |-> [speed |-> 50]]

SlotHeat ==
    [dt |-> 2 * SecondsPerDay, weather |-> <<[main |-> "Clear"]>>,
     main |-> [temp |-> 450, humidity |-> 20], wind |-> [speed |-> 50],
     rain |-> [3h |-> 0], snow |-> [3h |-> 0]]

SlotBare == [dt |-> SecondsPerDay]

SlotEmptyWeather ==
    [dt |-> SecondsPerDay, weather |-> <<>>, main |-> [temp |-> 200]]

ForecastOf(i, slots) ==
    [city |-> [name |-> ProviderName(i), country |-> ProviderCountry(i)],
     list |-> slots]

(* ------------------------ tuples of variables -------------------------- *)

vars == <<pc, ci, li, now, data, files, results, current_weather, forecast,
          raw_data_files, ld, daily_aggregates, temperature_anomalies,
          extreme_weather_events, sqlite_master, snap, log, faults, calls,
          mode, conns>>

dbVars == <<current_weather, forecast, raw_data_files>>
derivedVars == <<daily_aggregates, temperature_anomalies,
                 extreme_weather_events, sqlite_master>>

NoData == EmptyObj
LdIdle == [active |-> FALSE, path |-> <<>>, idx |-> 0, rows |-> <<>>]
NoSnap == [taken |-> FALSE]

\* The store and file system before anything ran.
EmptyStore ==
    /\ files = <<>>
    /\ current_weather = <<>>
    /\ forecast = <<>>
    /\ raw_data_files = <<>>
    /\ ld = LdIdle
    /\ daily_aggregates = EmptyBag
    /\ temperature_anomalies = EmptyBag
    /\ extreme_weather_events = EmptyBag
    /\ sqlite_master = {}
    /\ snap = NoSnap
    /\ log = <<>>
    /\ faults = 0
    /\ conns = 0

Init ==
    /\ pc = "start"
    /\ ci = 1
    /\ li = 1
    /\ now = 0
    /\ data = NoData
    /\ results = [current |-> <<>>, forecast |-> <<>>]
    /\ calls = 0
    /\ mode = "pipeline"
    /\ EmptyStore

(* ------------------------------ extract -------------------------------- *)

\* data['retrieved_at'] = datetime.now().isoformat()
Stamp(d, t) ==
    [k \in DOMAIN d \cup {"retrieved_at"} |->
        IF k = "retrieved_at" THEN t ELSE d[k]]

\* Python truthiness of a dict: `if current_data:`
Truthy(d) == DOMAIN d # {}

\* The observation responses the provider may give for city number i.
CurrentResponses(i) == {CurrentFull(i), CurrentBare(i), CurrentEmptyWeather(i)}

\* The forecast responses the provider may give for city number i; for
\* the test city, the one-slot response of the end-to-end test.
ForecastResponses(i) ==
    IF mode = "test" THEN {ForecastOf(i, <<SlotHeat>>)}
    ELSE {ForecastOf(i, <<SlotMild>>), ForecastOf(i, <<SlotHeat, SlotBare>>),
          ForecastOf(i, <<SlotMild, SlotEmptyWeather>>)}

\* Mutant: the file name leaves the city out.
FileName_NoCity(data_type, city, t) ==
    [data_type |-> data_type, city_name |-> <<>>, timestamp |-> t]

\* raw_data/{data_type}_{city_name}_{timestamp}.json
FileName(data_type, city, t) ==
    [data_type |-> data_type, city_name |-> CleanCityName(city), timestamp |-> t]

\* open(filename, 'w'); json.dump: creates or overwrites the file
WriteFile(fs, name, content) ==
    [f \in DOMAIN fs \cup {name} |-> IF f = name THEN content ELSE fs[f]]

\* Mutant: the newest key comes first when the items are iterated.
SetItem_Prepend(items, city, path) ==
    <<[city |-> city, path |-> path]>> \o items

\* results[kind][city] = file_path: a dict keeps a key's first position
SetItem(items, city, path) ==
    IF \E j \in 1..Len(items) : items[j].city = city
    THEN [j \in 1..Len(items) |->
            IF items[j].city = city THEN [city |-> city, path |-> path]
            ELSE items[j]]
    ELSE Append(items, [city |-> city, path |-> path])

Event(op, kind, what) == [op |-> op, kind |-> kind, what |-> what]

\* run_pipeline up to the call of extract_weather_data: init_database
\* creates the three base tables if they are missing.
run_pipeline_start ==
    /\ pc = "start"
    /\ pc' = "fetch_current"
    /\ ci' = 1
    /\ results' = [current |-> <<>>, forecast |-> <<>>]
    /\ UNCHANGED <<li, now, data, files, dbVars, ld, derivedVars, snap, log,
                   faults, calls, mode>>
    /\ UNCHANGED conns

\* Mutant: the fetch lets RequestException through to run_pipeline.
FetchFailed_Escapes(kind, next) ==
    /\ data' = NoData
    /\ pc' = "failed"
    /\ log' = Append(log, Event("fetch_failed", kind, Cities[ci]))

\* The outcome of a fetch that raised RequestException: logged, and None
\* is returned, which the caller's `if` skips.
FetchFailed(kind, next) ==
    /\ data' = NoData
    /\ pc' = next
    /\ log' = Append(log, Event("fetch_failed", kind, Cities[ci]))

\* The outcome of a fetch that returned the provider's JSON.
FetchReturned(kind, d, t, next) ==
    /\ data' = Stamp(d, t)
    /\ pc' = next
    /\ log' = Append(log, Event("fetch", kind, Cities[ci]))

\* get_current_weather for the city in hand, at the head of the loop body.
get_current_weather ==
    /\ pc = "fetch_current"
    /\ ci <= Len(Cities)
    /\ \/ FetchFailed("current", "save_current")
       \/ \E d \in CurrentResponses(ci) :
            FetchReturned("current", d, now, "save_current")
    /\ UNCHANGED <<ci, li, now, files, results, dbVars, ld, derivedVars, snap,
                   faults, calls, mode>>
    /\ UNCHANGED conns

\* get_forecast for the city in hand.
get_forecast ==
    /\ pc = "fetch_forecast"
    /\ \/ FetchFailed("forecast", "save_forecast")
       \/ \E d \in ForecastResponses(ci) :
            FetchReturned("forecast", d, now, "save_forecast")
    /\ UNCHANGED <<ci, li, now, files, results, dbVars, ld, derivedVars,
                   snap, faults, calls, mode>>
    /\ UNCHANGED conns

\* save_raw_data wrote the file: results[kind][city] = file_path
SaveDone(kind, next) ==
    LET path == FileName(kind, Cities[ci], now)
    IN /\ files' = WriteFile(files, path, data)
       /\ results' = [results EXCEPT ![kind] = SetItem(@, Cities[ci], path)]
       /\ log' = Append(log, Event("persist", kind, Cities[ci]))
       /\ pc' = next
       /\ UNCHANGED faults

\* save_raw_data raised OSError: nothing catches it before run_pipeline,
\* which logs it and raises it again.
SaveRaised(kind) ==
    /\ faults < MaxFaults
    /\ faults' = faults + 1
    /\ log' = Append(log, Event("persist_failed", kind, Cities[ci]))
    /\ pc' = "failed"
    /\ UNCHANGED <<files, results>>

\* `if current_data: save_raw_data(current_data, 'current', city)`
save_raw_data_current ==
    /\ pc = "save_current"
    /\ IF Truthy(data)
       THEN SaveDone("current", "fetch_forecast") \/ SaveRaised("current")
       ELSE pc' = "fetch_forecast" /\ UNCHANGED <<files, results, log, faults>>
    /\ UNCHANGED <<ci, li, now, data, dbVars, ld, derivedVars, snap, calls, mode>>
    /\ UNCHANGED conns

\* `if forecast_data: save_raw_data(forecast_data, 'forecast', city)`
save_raw_data_forecast ==
    /\ pc = "save_forecast"
    /\ IF Truthy(data)
       THEN SaveDone("forecast", "next_city") \/ SaveRaised("forecast")
       ELSE pc' = "next_city" /\ UNCHANGED <<files, results, log, faults>>
    /\ UNCHANGED <<ci, li, now, data, dbVars, ld, derivedVars, snap, calls, mode>>
    /\ UNCHANGED conns

\* `for city in cities`: the next city, or return results to run_pipeline,
\* which calls load_data_files.
extract_next_city ==
    /\ pc = "next_city"
    /\ IF ci < Len(Cities)
       THEN ci' = ci + 1 /\ pc' = "fetch_current" /\ li' = li
       ELSE ci' = ci /\ pc' = "load_current" /\ li' = 1
    /\ UNCHANGED <<now, data, files, results, dbVars, ld, derivedVars, snap,
                   log, faults, calls, mode>>
    /\ UNCHANGED conns

(* ------------------------------- load ---------------------------------- *)

\* The row load_current_weather builds from an observation document.
CurrentRow(d) ==
    [city_name |-> GetOpt(d, "name"),
     country |-> GetOpt(Get(d, "sys", EmptyObj), "country"),
     weather_main |-> GetOpt(Get(d, "weather", <<EmptyObj>>)[1], "main"),
     temperature |-> GetOpt(Get(d, "main", EmptyObj), "temp"),
     humidity |-> GetOpt(Get(d, "main", EmptyObj), "humidity"),
     wind_speed |-> GetOpt(Get(d, "wind", EmptyObj), "speed"),
     rain_1h |-> Some(Get(Get(d, "rain", EmptyObj), "1h", 0)),
     snow_1h |-> Some(Get(Get(d, "snow", EmptyObj), "1h", 0)),
     timestamp |-> FromTimestamp(Get(d, "dt", 0)),
     retrieved_at |-> GetOpt(d, "retrieved_at")]

\* Mutant: precipitation is read without the default 0.
ForecastRow_NullPrecipitation(d, e) ==
    [city_name |-> GetOpt(Get(d, "city", EmptyObj), "name"),
     country |-> GetOpt(Get(d, "city", EmptyObj), "country"),
     forecast_time |-> FromTimestamp(Get(e, "dt", 0)),
     weather_main |-> GetOpt(Get(e, "weather", <<EmptyObj>>)[1], "main"),
     temperature |-> GetOpt(Get(e, "main", EmptyObj), "temp"),
     humidity |-> GetOpt(Get(e, "main", EmptyObj), "humidity"),
     wind_speed |-> GetOpt(Get(e, "wind", EmptyObj), "speed"),
     rain_3h |-> GetOpt(Get(e, "rain", EmptyObj), "3h"),
     snow_3h |-> GetOpt(Get(e, "snow", EmptyObj), "3h"),
     retrieved_at |-> GetOpt(d, "retrieved_at")]

\* The row load_forecast_data builds from one entry of the list.
ForecastRow(d, e) ==
    [city_name |-> GetOpt(Get(d, "city", EmptyObj), "name"),
     country |-> GetOpt(Get(d, "city", EmptyObj), "country"),
     forecast_time |-> FromTimestamp(Get(e, "dt", 0)),
     weather_main |-> GetOpt(Get(e, "weather", <<EmptyObj>>)[1], "main"),
     temperature |-> GetOpt(Get(e, "main", EmptyObj), "temp"),
     humidity |-> GetOpt(Get(e, "main", EmptyObj), "humidity"),
     wind_speed |-> GetOpt(Get(e, "wind", EmptyObj), "speed"),
     rain_3h |-> Some(Get(Get(e, "rain", EmptyObj), "3h", 0)),
     snow_3h |-> Some(Get(Get(e, "snow", EmptyObj), "3h", 0)),
     retrieved_at |-> GetOpt(d, "retrieved_at")]

\* Building the row raises: `.get('weather', [{}])[0]` on an empty list
\* is an IndexError.
RowRaises(e) == Len(Get(e, "weather", <<EmptyObj>>)) = 0

\* The raw_data_files row of an artifact.
RawRef(path, data_type, city_name) ==
    [file_path |-> path, data_type |-> data_type, city |-> city_name]

\* What a caller does with an exception a loader let through: run_pipeline
\* logs it and raises it again, the library caller sees it and goes on.
Propagate == IF mode = "ops" THEN "ops" ELSE "failed"

\* Where a call that returns normally goes on.
Return(next) == IF mode = "ops" THEN "ops" ELSE next

\* sqlite raised on an insert or on the commit.
StoreError ==
    /\ faults < MaxFaults
    /\ faults' = faults + 1

\* `with open(file_path, 'r')`, json.load raised (the file is missing or
\* unreadable): the statement stands outside the try.
ReadRaised(kind, path) ==
    /\ faults < MaxFaults
    /\ faults' = faults + 1
    /\ log' = Append(log, Event("read_failed", kind, path))
    /\ pc' = Propagate

\* load_current_weather: `except Exception`: log, conn.rollback()
CurrentRollback(path) ==
    /\ log' = Append(log, Event("load_failed", "current", path))
    /\ UNCHANGED dbVars

\* Mutant: an observation already in the table is not inserted again.
CurrentCommit_Dedup(path) ==
    LET d == files[path]
        row == CurrentRow(d)
        fresh == \A i \in DOMAIN current_weather : current_weather[i] # row
    IN /\ current_weather' =
             IF fresh THEN Append(current_weather, row) ELSE current_weather
       /\ raw_data_files' =
             IF fresh
             THEN Append(raw_data_files, RawRef(path, "current", row.city_name))
             ELSE raw_data_files
       /\ forecast' = forecast
       /\ log' = Append(log, Event("load", "current", path))

\* load_current_weather: both inserts and conn.commit()
CurrentCommit(path) ==
    LET d == files[path]
        row == CurrentRow(d)
    IN /\ current_weather' = Append(current_weather, row)
       /\ raw_data_files' =
             Append(raw_data_files, RawRef(path, "current", row.city_name))
       /\ forecast' = forecast
       /\ log' = Append(log, Event("load", "current", path))

\* load_current_weather(file_path, db_path), from open() to conn.close().
load_current_weather(path) ==
    \/ ReadRaised("current", path) /\ UNCHANGED dbVars
    \/ /\ path \in DOMAIN files
       /\ \/ /\ ~RowRaises(files[path])
             /\ CurrentCommit(path)
             /\ UNCHANGED faults
          \/ /\ RowRaises(files[path])
             /\ CurrentRollback(path)
             /\ UNCHANGED faults
          \/ /\ ~RowRaises(files[path])
             /\ StoreError
             /\ CurrentRollback(path)
       /\ pc' = pc

\* load_forecast_data up to the loop: open, json.load, connect, the city
\* header.
ForecastBegin(path) ==
    \/ ReadRaised("forecast", path) /\ UNCHANGED <<ld, conns>>
    \/ /\ path \in DOMAIN files
       /\ ld' = [active |-> TRUE, path |-> path, idx |-> 1, rows |-> <<>>]
       /\ conns' = conns + 1
       /\ pc' = pc
       /\ UNCHANGED <<log, faults>>

\* The entries of the artifact the open transaction is loading.
LdList == Get(files[ld.path], "list", <<>>)

\* Mutant: the handler commits what the transaction holds instead of
\* rolling it back.
ForecastRollback_CommitsPrefix ==
    /\ ld' = LdIdle
    /\ log' = Append(log, Event("load_failed", "forecast", ld.path))
    /\ conns' = conns - 1
    /\ forecast' = forecast \o ld.rows
    /\ UNCHANGED <<current_weather, raw_data_files>>

\* load_forecast_data: `except Exception`: log, conn.rollback(),
\* conn.close(): the pending rows are dropped.
ForecastRollback ==
    /\ ld' = LdIdle
    /\ log' = Append(log, Event("load_failed", "forecast", ld.path))
    /\ conns' = conns - 1
    /\ UNCHANGED dbVars

\* One turn of `for forecast in data.get('list', [])`: the row is built
\* and inserted in the open transaction, or an exception ends the load.
ForecastEntry ==
    /\ ld.active
    /\ ld.idx <= Len(LdList)
    /\ \/ /\ ~RowRaises(LdList[ld.idx])
          /\ ld' = [ld EXCEPT !.idx = @ + 1,
                       !.rows = Append(@, ForecastRow(files[ld.path], LdList[ld.idx]))]
          /\ UNCHANGED <<dbVars, log, faults, conns>>
       \/ /\ RowRaises(LdList[ld.idx])
          /\ ForecastRollback
          /\ UNCHANGED faults
       \/ /\ ~RowRaises(LdList[ld.idx])
          /\ StoreError
          /\ ForecastRollback

\* load_forecast_data after the loop: the raw_data_files insert and
\* conn.commit(), which publishes every pending row at once.
ForecastCommit ==
    /\ ld.active
    /\ ld.idx > Len(LdList)
    /\ \/ /\ forecast' = forecast \o ld.rows
          /\ raw_data_files' =
                Append(raw_data_files,
                       RawRef(ld.path, "forecast",
                              GetOpt(Get(files[ld.path], "city", EmptyObj), "name")))
          /\ current_weather' = current_weather
          /\ ld' = LdIdle
          /\ conns' = conns - 1
          /\ log' = Append(log, Event("load", "forecast", ld.path))
          /\ UNCHANGED faults
       \/ /\ StoreError
          /\ ForecastRollback

\* `for city, file_path in results.get('current', {}).items()`
load_data_files_current ==
    /\ pc = "load_current"
    /\ IF li <= Len(results.current)
       THEN load_current_weather(results.current[li].path) /\ li' = li + 1
       ELSE /\ pc' = "load_forecast"
            /\ li' = 1
            /\ UNCHANGED <<dbVars, log, faults>>
    /\ UNCHANGED <<ci, now, data, files, results, ld, derivedVars, snap, calls, mode>>
    /\ UNCHANGED conns

\* `for city, file_path in results.get('forecast', {}).items()`: the call
\* of load_forecast_data, or the return to run_pipeline, which calls
\* run_transformations.
load_data_files_forecast ==
    /\ pc = "load_forecast"
    /\ ~ld.active
    /\ IF li <= Len(results.forecast)
       THEN ForecastBegin(results.forecast[li].path) /\ li' = li + 1
       ELSE /\ pc' = "daily"
            /\ UNCHANGED <<li, ld, log, faults, conns>>
    /\ UNCHANGED <<ci, now, data, files, results, dbVars, derivedVars, snap,
                   calls, mode>>

\* load_forecast_data's loop and end, run to the caller's return.
load_forecast_data_step ==
    /\ ForecastEntry \/ ForecastCommit
    /\ UNCHANGED <<pc, ci, li, now, data, files, results, derivedVars, snap,
                   calls, mode>>

(* ----------------------------- transform ------------------------------- *)

RECURSIVE SeqToBag(_)
\* The rows of a DataFrame as a bag.
SeqToBag(rows) ==
    IF rows = <<>> THEN EmptyBag
    ELSE SetToBag({Head(rows)}) (+) SeqToBag(Tail(rows))

RECURSIVE SumOver(_, _, _)
\* The sum of column col over the rows of fc numbered in S, NULLs skipped.
SumOver(fc, S, col) ==
    IF S = {} THEN 0
    ELSE LET i == CHOOSE x \in S : TRUE
             v == fc[i][col]
         IN (IF v = None THEN 0 ELSE CHOOSE x \in v : TRUE)
            + SumOver(fc, S \ {i}, col)

\* The values of column col over the rows of fc numbered in S, NULLs skipped.
ValuesOver(fc, S, col) == UNION {fc[i][col] : i \in S}

\* avg(col): the exact mean as sum over count of the non-NULL values, NULL
\* when there is none.
Avg(fc, S, col) ==
    LET nn == {i \in S : fc[i][col] # None}
    IN IF nn = {} THEN None
       ELSE Some([sum |-> SumOver(fc, nn, col), n |-> Cardinality(nn)])

\* min(col) and max(col)
MinOf(fc, S, col) ==
    LET vs == ValuesOver(fc, S, col)
    IN IF vs = {} THEN None ELSE Some(CHOOSE m \in vs : \A v \in vs : m <= v)

MaxOf(fc, S, col) ==
    LET vs == ValuesOver(fc, S, col)
    IN IF vs = {} THEN None ELSE Some(CHOOSE m \in vs : \A v \in vs : m >= v)

\* Mutant: GROUP BY city_name, country.
GroupKey_NoDate(r) == <<r.city_name, r.country, 0>>

\* GROUP BY city_name, country, date(forecast_time)
GroupKey(r) == <<r.city_name, r.country, DateOf(r.forecast_time)>>

\* calculate_daily_aggregates: one row per group of the forecast table.
calculate_daily_aggregates(fc) ==
    LET ids == 1..Len(fc)
        keys == {GroupKey(fc[i]) : i \in ids}
        members(k) == {i \in ids : GroupKey(fc[i]) = k}
        row(k) ==
            [city_name |-> k[1], country |-> k[2], date |-> k[3],
             avg_temp |-> Avg(fc, members(k), "temperature"),
             min_temp |-> MinOf(fc, members(k), "temperature"),
             max_temp |-> MaxOf(fc, members(k), "temperature"),
             avg_humidity |-> Avg(fc, members(k), "humidity"),
             avg_wind_speed |-> Avg(fc, members(k), "wind_speed")]
    IN SetToBag({row(k) : k \in keys})

\* temperature - city_avg_temp, exact: (t * n - sum) / n
Anomaly(t, avg) ==
    IF t = None \/ avg = None THEN None
    ELSE LET tv == CHOOSE x \in t : TRUE
             a == CHOOSE x \in avg : TRUE
         IN Some([num |-> tv * a.n - a.sum, den |-> a.n])

\* calculate_temperature_anomalies: groupby('city_name') leaves out the
\* rows without a city name, and the inner merge drops them.
calculate_temperature_anomalies(fc) ==
    LET ids == 1..Len(fc)
        same(i) == {j \in ids : fc[j].city_name = fc[i].city_name}
        row(i) ==
            LET avg == Avg(fc, same(i), "temperature")
            IN [city_name |-> fc[i].city_name, country |-> fc[i].country,
                forecast_time |-> fc[i].forecast_time,
                temperature |-> fc[i].temperature,
                city_avg_temp |-> avg,
                temp_anomaly |-> Anomaly(fc[i].temperature, avg)]
        kept == SelectSeq([i \in ids |-> i], LAMBDA i : fc[i].city_name # None)
    IN SeqToBag([j \in 1..Len(kept) |-> row(kept[j])])

\* Mutant: the upper temperature threshold is 45 degrees.
ExtremeHeat_Above45(r) == \E t \in r.temperature : t > 450

\* Mutant: the upper temperature threshold is inclusive.
ExtremeHeat_Inclusive(r) == \E t \in r.temperature : t >= 400

\* The five conditions of find_extreme_weather_events, on tenths.
ExtremeCold(r) == \E t \in r.temperature : t < -100
ExtremeHeat(r) == \E t \in r.temperature : t > 400
StrongWinds(r) == \E w \in r.wind_speed : w > 200
HeavyRain(r) == \E x \in r.rain_3h : x > 100
HeavySnow(r) == \E x \in r.snow_3h : x > 100

extreme_conditions(r) ==
    ExtremeCold(r) \/ ExtremeHeat(r) \/ StrongWinds(r) \/ HeavyRain(r)
        \/ HeavySnow(r)

\* f"{value:.1f}" of a value held in tenths: sign, whole part, one decimal.
Format1f(v) ==
    LET a == IF v < 0 THEN -v ELSE v
    IN [minus |-> v < 0, whole |-> a \div 10, tenth |-> a % 10]

Clause(label, v, unit) ==
    <<[label |-> label, value |-> Format1f(CHOOSE x \in v : TRUE), unit |-> unit]>>

\* Mutant: the conditions are chained with elif, so only the first
\* matching one is described.
event_description_Elif(r) ==
    IF ExtremeCold(r) THEN Clause("Extreme cold", r.temperature, "C")
    ELSE IF ExtremeHeat(r) THEN Clause("Extreme heat", r.temperature, "C")
    ELSE IF StrongWinds(r) THEN Clause("Strong winds", r.wind_speed, " m/s")
    ELSE IF HeavyRain(r) THEN Clause("Heavy rain", r.rain_3h, " mm/3h")
    ELSE IF HeavySnow(r) THEN Clause("Heavy snow", r.snow_3h, " mm/3h")
    ELSE <<>>

\* "; ".join(event_descriptions): the clauses in the order of the `if`s.
event_description(r) ==
    (IF ExtremeCold(r) THEN Clause("Extreme cold", r.temperature, "C") ELSE <<>>)
    \o (IF ExtremeHeat(r) THEN Clause("Extreme heat", r.temperature, "C") ELSE <<>>)
    \o (IF StrongWinds(r) THEN Clause("Strong winds", r.wind_speed, " m/s") ELSE <<>>)
    \o (IF HeavyRain(r) THEN Clause("Heavy rain", r.rain_3h, " mm/3h") ELSE <<>>)
    \o (IF HeavySnow(r) THEN Clause("Heavy snow", r.snow_3h, " mm/3h") ELSE <<>>)

\* find_extreme_weather_events: the qualifying rows of the forecast table,
\* each with its id and its description.
find_extreme_weather_events(fc) ==
    LET ids == SelectSeq([i \in 1..Len(fc) |-> i],
                         LAMBDA i : extreme_conditions(fc[i]))
    IN [j \in 1..Len(ids) |->
            [id |-> ids[j], row |-> fc[ids[j]],
             event_description |-> event_description(fc[ids[j]])]]

\* Mutant: to_sql with if_exists='replace'.
store_transformed_data_Replace(table, rows) == rows

\* store_transformed_data: df.to_sql creates the table if it is missing
\* and appends the rows.
store_transformed_data(table, rows) == table (+) rows

\* The store as run_transformations finds it.
TakeSnap ==
    [taken |-> TRUE, current_weather |-> current_weather,
     forecast |-> forecast, raw_data_files |-> raw_data_files,
     daily_aggregates |-> daily_aggregates,
     temperature_anomalies |-> temperature_anomalies,
     extreme_weather_events |-> extreme_weather_events,
     sqlite_master |-> sqlite_master]

\* A derivation or a store raised: run_transformations logs the error
\* and raises it again; what was stored before stays stored.  When
\* read_sql_query or to_sql raised, the conn.close() that follows it is
\* not reached; when the DataFrame code after it raised, it was.
TransformRaised ==
    /\ faults < MaxFaults
    /\ faults' = faults + 1
    /\ conns' \in {conns, conns + 1}
    /\ log' = Append(log, Event("transform_failed", pc, <<>>))
    /\ pc' = Propagate

\* Mutant: the daily step deletes the forecast rows it has aggregated.
transform_daily_ConsumesForecast ==
    /\ pc = "daily"
    /\ snap' = TakeSnap
    /\ daily_aggregates' =
          store_transformed_data(daily_aggregates,
                                 calculate_daily_aggregates(forecast))
    /\ sqlite_master' = sqlite_master \cup {"daily_aggregates"}
    /\ log' = Append(log, Event("transform", "daily", <<>>))
    /\ pc' = "anomalies"
    /\ forecast' = <<>>
    /\ UNCHANGED <<ci, li, now, data, files, results, current_weather,
                   raw_data_files, ld, temperature_anomalies,
                   extreme_weather_events, faults, calls, mode, conns>>

\* run_transformations: calculate_daily_aggregates, store_transformed_data
transform_daily ==
    /\ pc = "daily"
    /\ snap' = TakeSnap
    /\ \/ /\ daily_aggregates' =
                store_transformed_data(daily_aggregates,
                                       calculate_daily_aggregates(forecast))
          /\ sqlite_master' = sqlite_master \cup {"daily_aggregates"}
          /\ log' = Append(log, Event("transform", "daily", <<>>))
          /\ pc' = "anomalies"
          /\ UNCHANGED <<faults, conns>>
       \/ TransformRaised /\ UNCHANGED <<daily_aggregates, sqlite_master>>
    /\ UNCHANGED <<ci, li, now, data, files, results, dbVars, ld,
                   temperature_anomalies, extreme_weather_events, calls, mode>>

\* run_transformations: calculate_temperature_anomalies,
\* store_transformed_data
transform_anomalies ==
    /\ pc = "anomalies"
    /\ \/ /\ temperature_anomalies' =
                store_transformed_data(temperature_anomalies,
                                       calculate_temperature_anomalies(forecast))
          /\ sqlite_master' = sqlite_master \cup {"temperature_anomalies"}
          /\ log' = Append(log, Event("transform", "anomalies", <<>>))
          /\ pc' = "extreme"
          /\ UNCHANGED <<faults, conns>>
       \/ TransformRaised /\ UNCHANGED <<temperature_anomalies, sqlite_master>>
    /\ UNCHANGED <<ci, li, now, data, files, results, dbVars, ld,
                   daily_aggregates, extreme_weather_events, snap, calls, mode>>

\* Mutant: the store is not guarded by `if not extreme_events.empty`.
StoreExtreme_Unguarded(events) ==
    /\ extreme_weather_events' =
          store_transformed_data(extreme_weather_events, SeqToBag(events))
    /\ sqlite_master' = sqlite_master \cup {"extreme_weather_events"}

\* `if not extreme_events.empty: store_transformed_data(...)`
StoreExtreme(events) ==
    IF events # <<>>
    THEN /\ extreme_weather_events' =
               store_transformed_data(extreme_weather_events, SeqToBag(events))
         /\ sqlite_master' = sqlite_master \cup {"extreme_weather_events"}
    ELSE UNCHANGED <<extreme_weather_events, sqlite_master>>

\* run_transformations: find_extreme_weather_events and the guarded store
transform_extreme ==
    /\ pc = "extreme"
    /\ \/ /\ StoreExtreme(find_extreme_weather_events(forecast))
          /\ log' = Append(log, Event("transform", "extreme", <<>>))
          /\ pc' = Return("visualize")
          /\ UNCHANGED <<faults, conns>>
       \/ TransformRaised /\ UNCHANGED <<extreme_weather_events, sqlite_master>>
    /\ UNCHANGED <<ci, li, now, data, files, results, dbVars, ld,
                   daily_aggregates, temperature_anomalies, snap, calls, mode>>

\* create_all_visualizations reads the store and draws; it may raise.
create_all_visualizations ==
    /\ pc = "visualize"
    /\ \/ pc' = "done" /\ UNCHANGED <<faults, log>>
       \/ /\ faults < MaxFaults
          /\ faults' = faults + 1
          /\ log' = Append(log, Event("visualize_failed", "", <<>>))
          /\ pc' = "failed"
    /\ UNCHANGED <<ci, li, now, data, files, results, dbVars, ld, derivedVars,
                   snap, calls, mode>>
    /\ UNCHANGED conns

(* ------------------------- the pipeline run ---------------------------- *)

Next ==
    \/ run_pipeline_start
    \/ get_current_weather
    \/ save_raw_data_current
    \/ get_forecast
    \/ save_raw_data_forecast
    \/ extract_next_city
    \/ load_data_files_current
    \/ load_data_files_forecast
    \/ load_forecast_data_step
    \/ transform_daily
    \/ transform_anomalies
    \/ transform_extreme
    \/ create_all_visualizations

Spec == Init /\ [][Next]_vars

\* One run of run_pipeline on an empty store with config.CITIES set to
\* the single test city.
TestInit ==
    /\ pc = "start"
    /\ ci = 1
    /\ li = 1
    /\ now = 0
    /\ data = NoData
    /\ results = [current |-> <<>>, forecast |-> <<>>]
    /\ calls = 0
    /\ mode = "test"
    /\ EmptyStore

TestSpec == TestInit /\ [][Next]_vars

(* ----------------------- the loaders called directly -------------------- *)

\* Artifacts that earlier runs left in raw_data/ for the first city, one
\* per second: every observation and forecast response of the provider.
OpsCurrent == <<CurrentFull(1), CurrentBare(1), CurrentEmptyWeather(1)>>

OpsForecast ==
    <<ForecastOf(1, <<SlotMild>>), ForecastOf(1, <<SlotHeat, SlotBare>>),
      ForecastOf(1, <<SlotMild, SlotEmptyWeather>>)>>

OpsPaths(kind) ==
    {FileName(kind, CITIES[1], t) :
        t \in 1..Len(IF kind = "current" THEN OpsCurrent ELSE OpsForecast)}

OpsFiles ==
    [f \in OpsPaths("current") \cup OpsPaths("forecast") |->
        IF f.data_type = "current"
        THEN Stamp(OpsCurrent[f.timestamp], f.timestamp)
        ELSE Stamp(OpsForecast[f.timestamp], f.timestamp)]

\* A program that imports load.py and transform.py and calls
\* load_current_weather, load_forecast_data and run_transformations in
\* any order on an initialised store.
OpsInit ==
    /\ pc = "ops"
    /\ mode = "ops"
    /\ ci = 1
    /\ li = 1
    /\ now = Len(OpsCurrent) + 1
    /\ data = NoData
    /\ results = [current |-> <<>>, forecast |-> <<>>]
    /\ calls = 0
    /\ files = OpsFiles
    /\ current_weather = <<>>
    /\ forecast = <<>>
    /\ raw_data_files = <<>>
    /\ ld = LdIdle
    /\ daily_aggregates = EmptyBag
    /\ temperature_anomalies = EmptyBag
    /\ extreme_weather_events = EmptyBag
    /\ sqlite_master = {}
    /\ snap = NoSnap
    /\ log = <<>>
    /\ faults = 0
    /\ conns = 0

CanCall == pc = "ops" /\ ~ld.active /\ calls < MaxCalls

ops_load_current_weather ==
    /\ CanCall
    /\ calls' = calls + 1
    /\ \E path \in OpsPaths("current") : load_current_weather(path)
    /\ UNCHANGED <<ci, li, now, data, files, results, ld, derivedVars, snap,
                   mode>>
    /\ UNCHANGED conns

ops_load_forecast_data ==
    /\ CanCall
    /\ calls' = calls + 1
    /\ \E path \in OpsPaths("forecast") : ForecastBegin(path)
    /\ UNCHANGED <<ci, li, now, data, files, results, dbVars, derivedVars,
                   snap, mode>>

ops_run_transformations ==
    /\ CanCall
    /\ calls' = calls + 1
    /\ pc' = "daily"
    /\ UNCHANGED <<ci, li, now, data, files, results, dbVars, ld, derivedVars,
                   snap, log, faults, mode>>
    /\ UNCHANGED conns

OpsNext ==
    \/ ops_load_current_weather
    \/ ops_load_forecast_data
    \/ load_forecast_data_step
    \/ ops_run_transformations
    \/ transform_daily
    \/ transform_anomalies
    \/ transform_extreme

OpsSpec == OpsInit /\ [][OpsNext]_vars

(* ------------------ the aggregator over drawn tables ------------------- *)

\* A forecast entry with every block present, the day after SlotMild.
EdgeSlot(t, w, r, s) ==
    [dt |-> 2 * SecondsPerDay, weather |-> <<[main |-> "Clear"]>>,
     main |-> [temp |-> t, humidity |-> 20], wind |-> [speed |-> w],
     rain |-> [3h |-> r], snow |-> [3h |-> s]]

\* Entries on and just beyond each threshold of
\* find_extreme_weather_events, in tenths.
EdgeSlots ==
    {EdgeSlot(t, w, r, s) :
        t \in {-101, -100, 400, 401}, w \in {200, 201},
        r \in {100, 101}, s \in {100, 101}}

\* One-entry forecast documents: for the first city, for a city of the
\* same name in another country, and without a city block.
EdgeArtifacts ==
    {ForecastOf(1, <<e>>) : e \in EdgeSlots}
        \cup {[city |-> [name |-> ProviderName(1), country |-> "CA"],
               list |-> <<e>>] : e \in EdgeSlots}
        \cup {[list |-> <<e>>] : e \in EdgeSlots}

\* The second artifact of the table specification: three entries of the
\* first city, two on the same day (the second without any block) and
\* an extreme one the next day.
TableSecond == ForecastOf(1, <<SlotMild, SlotBare, SlotHeat>>)

TablePaths == {FileName("forecast", CITIES[1], t) : t \in 1..2}

TableFiles(a) ==
    [f \in TablePaths |->
        IF f.timestamp = 1 THEN Stamp(a, 1) ELSE Stamp(TableSecond, 2)]

\* A program that calls load_forecast_data and run_transformations in any
\* order on an initialised store and two artifacts, the first drawn from
\* EdgeArtifacts; no file or store error occurs.
TableInit ==
    /\ pc = "ops"
    /\ mode = "ops"
    /\ ci = 1
    /\ li = 1
    /\ now = 3
    /\ data = NoData
    /\ results = [current |-> <<>>, forecast |-> <<>>]
    /\ calls = 0
    /\ files \in {TableFiles(a) : a \in EdgeArtifacts}
    /\ current_weather = <<>>
    /\ forecast = <<>>
    /\ raw_data_files = <<>>
    /\ ld = LdIdle
    /\ daily_aggregates = EmptyBag
    /\ temperature_anomalies = EmptyBag
    /\ extreme_weather_events = EmptyBag
    /\ sqlite_master = {}
    /\ snap = NoSnap
    /\ log = <<>>
    /\ faults = MaxFaults
    /\ conns = 0

TableCanCall == pc = "ops" /\ ~ld.active /\ calls < MaxTableCalls

table_load_forecast_data ==
    /\ TableCanCall
    /\ calls' = calls + 1
    /\ \E path \in TablePaths : ForecastBegin(path)
    /\ UNCHANGED <<ci, li, now, data, files, results, dbVars, derivedVars,
                   snap, mode>>

table_run_transformations ==
    /\ TableCanCall
    /\ calls' = calls + 1
    /\ pc' = "daily"
    /\ UNCHANGED <<ci, li, now, data, files, results, dbVars, ld, derivedVars,
                   snap, log, faults, mode>>
    /\ UNCHANGED conns

TableNext ==
    \/ table_load_forecast_data
    \/ load_forecast_data_step
    \/ table_run_transformations
    \/ transform_daily
    \/ transform_anomalies
    \/ transform_extreme

TableSpec == TableInit /\ [][TableNext]_vars

(* ---------------------- reading the history --------------------------- *)

Range(seq) == {seq[i] : i \in DOMAIN seq}

\* The places of the log where the event stands.
LogIdx(op, kind, what) == {i \in DOMAIN log : log[i] = Event(op, kind, what)}

Happened(op, kind, what) == LogIdx(op, kind, what) # {}

\* The fetch of (kind, city) returned a document.
Fetched(kind, city) == Happened("fetch", kind, city)

\* The file extract_weather_data recorded for (kind, city).
PathOf(kind, city) ==
    (CHOOSE item \in Range(results[kind]) : item.city = city).path

Recorded(kind, city) == \E item \in Range(results[kind]) : item.city = city

\* The forecast rows an artifact holds, in list order.
ArtifactRows(path) ==
    LET d == files[path]
        l == Get(d, "list", <<>>)
    IN [j \in 1..Len(l) |-> ForecastRow(d, l[j])]

\* How often x stands in the sequence.
CountIn(seq, x) == Cardinality({i \in DOMAIN seq : seq[i] = x})

ExtractionOver ==
    pc \in {"load_current", "load_forecast", "daily", "anomalies", "extreme",
            "visualize", "done"}

TransformationsOver == pc \in {"visualize", "done"}

InDaily(r) ==
    \E row \in BagToSet(daily_aggregates) :
        <<row.city_name, row.country, row.date>> = GroupKey(r)

InAnomalies(r) ==
    \E row \in BagToSet(temperature_anomalies) :
        /\ row.city_name = r.city_name
        /\ row.forecast_time = r.forecast_time
        /\ row.temperature = r.temperature

InExtreme(r) == \E ev \in BagToSet(extreme_weather_events) : ev.row = r

\* The records of the artifact of (kind, city) are in the base table, and
\* the forecast records in every derived table they belong to.
RecordsLoaded(kind, city) ==
    LET p == PathOf(kind, city)
    IN IF kind = "current"
       THEN CurrentRow(files[p]) \in Range(current_weather)
       ELSE \A r \in Range(ArtifactRows(p)) :
               /\ r \in Range(forecast)
               /\ InDaily(r)
               /\ InAnomalies(r)
               /\ extreme_conditions(r) => InExtreme(r)

(* ------------------------------- claims -------------------------------- *)

\* C1: a provider fetch failure is isolated.  A failed fetch never ends
\* the run (only a file or store error does); once extraction is over
\* both kinds have been asked for every city and every document fetched
\* has its artifact recorded; and once the transformations are over, every
\* fetched artifact has been handed to the loader and, unless the loader
\* rolled that very artifact back, its records are in the base table and
\* (forecast records) in the derived tables of the run, whatever fetches
\* failed for other cities or for the other kind.
C1_FetchFailureIsolated ==
    /\ pc = "failed" => faults > 0
    /\ ExtractionOver =>
          \A i \in DOMAIN Cities : \A k \in Kinds :
              /\ Fetched(k, Cities[i]) \/ Happened("fetch_failed", k, Cities[i])
              /\ Fetched(k, Cities[i]) =>
                    /\ Recorded(k, Cities[i])
                    /\ PathOf(k, Cities[i]) \in DOMAIN files
    /\ TransformationsOver =>
          \A i \in DOMAIN Cities : \A k \in Kinds :
              Fetched(k, Cities[i]) =>
                  LET p == PathOf(k, Cities[i])
                  IN /\ Happened("load", k, p) \/ Happened("load_failed", k, p)
                     /\ ~Happened("load_failed", k, p) => RecordsLoaded(k, Cities[i])

\* C1 witness: the run is done, both fetches of the first city failed,
\* the forecast fetch of the second city failed too, and the observation
\* of the second city is loaded; and (second disjunct) a city whose
\* fetches both returned is loaded and aggregated after another's failed.
C1_Witness ==
    /\ pc = "done"
    /\ Happened("fetch_failed", "current", Cities[1])
    /\ Happened("fetch_failed", "forecast", Cities[1])
    /\ Fetched("current", Cities[2])
    /\ Fetched("forecast", Cities[2])
    /\ Happened("load", "current", PathOf("current", Cities[2]))
    /\ Happened("load", "forecast", PathOf("forecast", Cities[2]))
    /\ forecast # <<>>
    /\ daily_aggregates # EmptyBag

\* The raw artifacts on disk that belong to (kind, city).
ArtifactsOf(kind, city) ==
    {f \in DOMAIN files :
        f.data_type = kind /\ f.city_name = CleanCityName(city)}

\* The raw_data_files rows that record an artifact of (kind, city).
RefsOf(kind, city) ==
    {j \in DOMAIN raw_data_files :
        /\ raw_data_files[j].data_type = kind
        /\ raw_data_files[j].file_path \in ArtifactsOf(kind, city)}

\* C2 as stated: after a completed run every fetched (city, kind) has
\* exactly one raw artifact and exactly one raw_data_files row.
C2_Original ==
    pc = "done" =>
        \A i \in DOMAIN Cities : \A k \in Kinds :
            Fetched(k, Cities[i]) =>
                /\ Cardinality(ArtifactsOf(k, Cities[i])) = 1
                /\ Cardinality(RefsOf(k, Cities[i])) = 1

\* C2 amended: after a completed run every fetched (city, kind) has
\* exactly one raw artifact, written once and holding the fetched
\* document, and at most one raw_data_files row: exactly one when the
\* load of the artifact committed, none when it was rolled back.  A
\* (city, kind) whose fetch failed has neither.
C2_OneArtifactAtMostOneRef ==
    pc = "done" =>
        \A i \in DOMAIN Cities : \A k \in Kinds :
            IF Fetched(k, Cities[i])
            THEN /\ Cardinality(ArtifactsOf(k, Cities[i])) = 1
                 /\ Cardinality(LogIdx("persist", k, Cities[i])) = 1
                 /\ Recorded(k, Cities[i])
                 /\ PathOf(k, Cities[i]) \in ArtifactsOf(k, Cities[i])
                 /\ Cardinality(RefsOf(k, Cities[i])) =
                       (IF Happened("load_failed", k, PathOf(k, Cities[i]))
                        THEN 0 ELSE 1)
            ELSE /\ ArtifactsOf(k, Cities[i]) = {}
                 /\ RefsOf(k, Cities[i]) = {}

\* C2 witness: a completed run in which one fetched document was loaded
\* and recorded once, and another fetched document was rolled back and
\* has an artifact but no raw_data_files row.
C2_Witness ==
    /\ pc = "done"
    /\ \E i \in DOMAIN Cities : \E k \in Kinds :
          /\ Fetched(k, Cities[i])
          /\ Happened("load", k, PathOf(k, Cities[i]))
          /\ Cardinality(RefsOf(k, Cities[i])) = 1
    /\ \E i \in DOMAIN Cities : \E k \in Kinds :
          /\ Fetched(k, Cities[i])
          /\ Happened("load_failed", k, PathOf(k, Cities[i]))
          /\ Cardinality(ArtifactsOf(k, Cities[i])) = 1
          /\ RefsOf(k, Cities[i]) = {}

\* The run got as far as load_data_files: extraction raised nothing.
LoadingReached ==
    /\ pc \in {"daily", "anomalies", "extreme", "visualize", "done", "failed"}
    /\ \A e \in Range(log) : e.op # "persist_failed"

\* C3 as stated: a failure on one artifact never aborts the batch: once
\* load_data_files has been left, by returning or not, every artifact of
\* the batch was loaded or was rolled back and logged by its loader.
C3_Original ==
    LoadingReached =>
        \A k \in Kinds : \A item \in Range(results[k]) :
            Happened("load", k, item.path) \/ Happened("load_failed", k, item.path)

\* The raw_data_files row load_forecast_data writes for the artifact.
ForecastRef(path) ==
    RawRef(path, "forecast", GetOpt(Get(files[path], "city", EmptyObj), "name"))

\* C4: a forecast load is all or nothing.  Nothing is committed while
\* load_forecast_data runs; when it returns, either the forecast table
\* has grown by one row for every entry of the artifact's list, in order,
\* and raw_data_files by exactly the artifact's row, or all three base
\* tables hold exactly the rows they held before.
C4_ForecastLoadAllOrNothing ==
    [][ /\ ld'.active => UNCHANGED dbVars
        /\ (ld.active /\ ~ld'.active) =>
              \/ /\ \A e \in Range(LdList) : ~RowRaises(e)
                 /\ forecast' = forecast \o ArtifactRows(ld.path)
                 /\ raw_data_files' = Append(raw_data_files, ForecastRef(ld.path))
                 /\ current_weather' = current_weather
                 /\ log' = Append(log, Event("load", "forecast", ld.path))
              \/ /\ UNCHANGED dbVars
                 /\ log' = Append(log, Event("load_failed", "forecast", ld.path))
      ]_vars

\* C4 witness: a load of a two-entry artifact failed at its second entry,
\* after the first row was inserted in the transaction, and the store
\* that already held rows shows none of that artifact's.
C4_Witness ==
    /\ ~ld.active
    /\ log # <<>>
    /\ log[Len(log)].op = "load_failed"
    /\ log[Len(log)].kind = "forecast"
    /\ Len(files[log[Len(log)].what].list) = 2
    /\ RowRaises(files[log[Len(log)].what].list[2])
    /\ forecast # <<>>
    /\ ForecastRow(files[log[Len(log)].what], files[log[Len(log)].what].list[1])
          \notin Range(forecast)

\* C5 as stated: when save_raw_data fails for one city, the artifacts of
\* the other cities persisted in the same run are still loaded into the
\* relational store.
C5_Original ==
    \A e \in Range(log) :
        (pc = "failed" /\ e.op = "persist_failed") =>
            \A k \in Kinds : \A item \in Range(results[k]) :
                item.city # e.what => Happened("load", k, item.path)

\* C6 as stated: when a step of run_transformations fails, the error
\* reaches the orchestrator and the derived tables hold no row written by
\* the failed run: they are as the run found them.
C6_Original ==
    (mode = "pipeline" /\ log # <<>> /\ log[Len(log)].op = "transform_failed") =>
        /\ pc = "failed"
        /\ daily_aggregates = snap.daily_aggregates
        /\ temperature_anomalies = snap.temperature_anomalies
        /\ extreme_weather_events = snap.extreme_weather_events

\* The place of a city in the configured list, of a kind in the loop
\* body, and of the city an artifact belongs to.
CityIdx(city) == CHOOSE i \in DOMAIN Cities : Cities[i] = city
KindIdx(kind) == IF kind = "current" THEN 1 ELSE 2
PathCityIdx(path) ==
    CHOOSE i \in DOMAIN Cities : CleanCityName(Cities[i]) = path.city_name

ExtractOps == {"fetch", "fetch_failed", "persist", "persist_failed"}
LoadOps == {"load", "load_failed", "read_failed"}
TransformOps == {"transform", "transform_failed"}

\* The stage of the run an event belongs to.
Stage(e) ==
    CASE e.op \in ExtractOps -> 1
      [] e.op \in LoadOps -> 2
      [] e.op \in TransformOps -> 3
      [] OTHER -> 4

\* The city and the kind an extract or load event is about.
EventCity(e) == IF e.op \in ExtractOps THEN CityIdx(e.what) ELSE PathCityIdx(e.what)

\* C7 as stated: cities are processed one at a time in configuration
\* order (all that is done for a city comes before anything done for a
\* later city), for each city the observation's fetch, persist and load
\* come before its forecast's fetch, persist and load, and aggregation
\* starts only after every load.
C7_Original ==
    \A i, j \in DOMAIN log :
        LET a == log[i]
            b == log[j]
        IN /\ (Stage(a) <= 2 /\ Stage(b) <= 2 /\ EventCity(a) < EventCity(b))
                => i < j
           /\ (Stage(a) <= 2 /\ Stage(b) <= 2 /\ EventCity(a) = EventCity(b)
                 /\ a.kind = "current" /\ b.kind = "forecast") => i < j
           /\ (Stage(a) = 2 /\ Stage(b) = 3) => i < j

\* C7 amended: the run is staged.  Every city is fetched and persisted,
\* one city at a time in configuration order and the observation before
\* the forecast, before any artifact is loaded; then every observation
\* artifact is loaded in configuration order, then every forecast
\* artifact in configuration order; and aggregation starts only after
\* every artifact of the run was handed to its loader.
C7_StagedOrder ==
    /\ \A i, j \in DOMAIN log :
          LET a == log[i]
              b == log[j]
          IN i < j =>
                /\ Stage(a) <= Stage(b)
                /\ (Stage(a) = 1 /\ Stage(b) = 1) =>
                      \/ EventCity(a) < EventCity(b)
                      \/ /\ EventCity(a) = EventCity(b)
                         /\ KindIdx(a.kind) < KindIdx(b.kind)
                      \/ /\ EventCity(a) = EventCity(b)
                         /\ a.kind = b.kind
                         /\ a.op = "fetch"
                         /\ b.op \in {"persist", "persist_failed"}
                /\ (Stage(a) = 2 /\ Stage(b) = 2) =>
                      \/ KindIdx(a.kind) < KindIdx(b.kind)
                      \/ /\ a.kind = b.kind
                         /\ EventCity(a) < EventCity(b)
    /\ (\E e \in Range(log) : Stage(e) = 3) =>
          \A k \in Kinds : \A item \in Range(results[k]) :
              Happened("load", k, item.path) \/ Happened("load_failed", k, item.path)

\* C7 witness: a finished run in which both cities had both documents
\* fetched, persisted and loaded, and the aggregation ran.
C7_Witness ==
    /\ pc = "done"
    /\ \A i \in DOMAIN Cities : \A k \in Kinds :
          /\ Fetched(k, Cities[i])
          /\ Happened("load", k, PathOf(k, Cities[i]))
    /\ Happened("transform", "daily", <<>>)

\* C8: no deduplication.  For every well-formed observation artifact, the
\* number of its rows in current_weather and the number of its rows in
\* raw_data_files both equal the number of times it was loaded (loads
\* that committed), whatever that number is; nothing else is in either
\* table.
C8_NoDeduplication ==
    /\ \A p \in OpsPaths("current") :
          LET n == Cardinality(LogIdx("load", "current", p))
          IN IF RowRaises(files[p])
             THEN n = 0
             ELSE /\ CountIn(current_weather, CurrentRow(files[p])) = n
                  /\ CountIn(raw_data_files,
                             RawRef(p, "current", CurrentRow(files[p]).city_name)) = n
    /\ Len(current_weather) =
          Cardinality({i \in DOMAIN log :
                          log[i].op = "load" /\ log[i].kind = "current"})

\* C8 witness: one observation artifact was loaded twice and stands twice
\* in current_weather and twice in raw_data_files.
C8_Witness ==
    \E p \in OpsPaths("current") :
        /\ Cardinality(LogIdx("load", "current", p)) = 2
        /\ CountIn(current_weather, CurrentRow(files[p])) = 2
        /\ CountIn(raw_data_files,
                   RawRef(p, "current", CurrentRow(files[p]).city_name)) = 2

\* k copies of every element of the bag.
Scale(bag, k) ==
    IF k = 0 THEN EmptyBag ELSE [r \in DOMAIN bag |-> k * bag[r]]

\* How many times a step of run_transformations has stored its table.
Stored(step) == Cardinality(LogIdx("transform", step, <<>>))

\* No forecast load committed after a transformation run began.
ForecastUnchangedSinceFirstRun ==
    \A i, j \in DOMAIN log :
        (Stage(log[i]) = 3 /\ log[j].op = "load" /\ log[j].kind = "forecast")
            => j < i

\* C9: derived tables are appended to, never replaced.  A derived table
\* exists exactly when it has been stored once; and after k stores over
\* an unchanged forecast table daily_aggregates holds k copies of every
\* (city, country, date) group row and temperature_anomalies k copies of
\* every per-record row of one computation.
C9_DerivedTablesAppend ==
    /\ "daily_aggregates" \in sqlite_master <=> Stored("daily") >= 1
    /\ "temperature_anomalies" \in sqlite_master <=> Stored("anomalies") >= 1
    /\ ForecastUnchangedSinceFirstRun =>
          /\ daily_aggregates =
                Scale(calculate_daily_aggregates(forecast), Stored("daily"))
          /\ temperature_anomalies =
                Scale(calculate_temperature_anomalies(forecast), Stored("anomalies"))
          /\ \A i \in DOMAIN forecast :
                \E row \in DOMAIN calculate_daily_aggregates(forecast) :
                    /\ <<row.city_name, row.country, row.date>> = GroupKey(forecast[i])
                    /\ CopiesIn(row, daily_aggregates) = Stored("daily")

\* C9 witness: two completed transformation runs over the same non-empty
\* forecast table: every group row and every record row stands twice.
C9_Witness ==
    /\ pc = "ops"
    /\ forecast # <<>>
    /\ ForecastUnchangedSinceFirstRun
    /\ Stored("daily") = 2
    /\ Stored("anomalies") = 2
    /\ \E row \in DOMAIN daily_aggregates : CopiesIn(row, daily_aggregates) = 2
    /\ \E row \in DOMAIN temperature_anomalies :
          CopiesIn(row, temperature_anomalies) = 2

\* A transformation run has just returned normally.
RunReturned == log # <<>> /\ log[Len(log)] = Event("transform", "extreme", <<>>)

NoExtremeRecord == \A i \in DOMAIN forecast : ~extreme_conditions(forecast[i])

\* The forecast rows of the current batch: those loaded since the
\* previous transformation run ended and before this run began (the run
\* that has just returned wrote the last three events).
BatchLoads ==
    LET begun == Len(log) - 2
        before == {i \in 1..(begun - 1) : Stage(log[i]) = 3}
    IN {j \in 1..(begun - 1) :
            /\ log[j].op = "load"
            /\ log[j].kind = "forecast"
            /\ \A i \in before : i < j}

BatchHasExtremeRecord ==
    \E j \in BatchLoads : \E r \in Range(ArtifactRows(log[j].what)) :
        extreme_conditions(r)

\* C10 as stated: when no record of the current batch (the records loaded
\* for this run) satisfies an extreme condition, a transformation run
\* leaves extreme_weather_events untouched: neither created nor appended
\* to.
C10_Original ==
    (RunReturned /\ ~BatchHasExtremeRecord) =>
        /\ extreme_weather_events = snap.extreme_weather_events
        /\ ("extreme_weather_events" \in sqlite_master)
              <=> ("extreme_weather_events" \in snap.sqlite_master)

\* C10 amended: the records scanned are the whole forecast table.  When
\* no forecast record, of this batch or of an earlier one, satisfies an
\* extreme condition, a transformation run leaves extreme_weather_events
\* as it found it: not created, not appended to.  When some record of the
\* table qualifies, the run appends the event rows of every qualifying
\* record of the table, those of earlier batches included.
C10_ExtremeTableUntouched ==
    RunReturned =>
        IF NoExtremeRecord
        THEN /\ extreme_weather_events = snap.extreme_weather_events
             /\ ("extreme_weather_events" \in sqlite_master)
                   <=> ("extreme_weather_events" \in snap.sqlite_master)
        ELSE /\ extreme_weather_events =
                   snap.extreme_weather_events
                       (+) SeqToBag(find_extreme_weather_events(forecast))
             /\ "extreme_weather_events" \in sqlite_master

\* C10 witness: a run over a non-empty forecast table without extreme
\* records returned: the other two tables were stored, and
\* extreme_weather_events does not exist.
C10_Witness ==
    /\ RunReturned
    /\ NoExtremeRecord
    /\ forecast # <<>>
    /\ daily_aggregates # EmptyBag
    /\ "temperature_anomalies" \in sqlite_master
    /\ "extreme_weather_events" \notin sqlite_master

\* The rows the transformation run that has just returned appended to
\* extreme_weather_events.
EmittedEvents == extreme_weather_events (-) snap.extreme_weather_events

\* The number of event rows the run emitted for forecast row i.
EmittedFor(i) ==
    LET evs == {ev \in BagToSet(EmittedEvents) : ev.id = i}
    IN IF evs = {} THEN 0
       ELSE CopiesIn(CHOOSE ev \in evs : TRUE, EmittedEvents)
                + Cardinality(evs) - 1

\* A record sitting on a threshold with each of its five values.
OnEveryBoundary(r) ==
    /\ r.temperature \in {{-100}, {400}}
    /\ r.wind_speed = {200}
    /\ r.rain_3h = {100}
    /\ r.snow_3h = {100}

\* C11: a transformation run emits an extreme event for a forecast
\* record, once, if and only if at least one of temperature < -10,
\* temperature > 40, wind speed > 20, 3-hour rain > 10, 3-hour snow > 10
\* holds (values in tenths); a record on the boundaries is not flagged.
C11_StrictPredicates ==
    RunReturned =>
        \A i \in DOMAIN forecast :
            LET r == forecast[i]
                matches ==
                    \/ \E t \in r.temperature : t < -100 \/ t > 400
                    \/ \E w \in r.wind_speed : w > 200
                    \/ \E x \in r.rain_3h : x > 100
                    \/ \E x \in r.snow_3h : x > 100
            IN /\ EmittedFor(i) = (IF matches THEN 1 ELSE 0)
               /\ OnEveryBoundary(r) => EmittedFor(i) = 0

\* C11 witness: a run returned over a table holding a record on every
\* boundary (temperature 40.0), which it did not flag, next to a record
\* it flagged.
C11_Witness ==
    /\ RunReturned
    /\ \E i \in DOMAIN forecast :
          /\ OnEveryBoundary(forecast[i])
          /\ forecast[i].temperature = {400}
          /\ EmittedFor(i) = 0
    /\ \E i \in DOMAIN forecast : EmittedFor(i) = 1

\* The labels of the five predicates in their fixed order.
PredicateOrder ==
    <<"Extreme cold", "Extreme heat", "Strong winds", "Heavy rain", "Heavy snow">>

\* Whether record r matches the predicate of that label, and the value
\* the clause of that label shows.
MatchesLabel(r, label) ==
    CASE label = "Extreme cold" -> \E t \in r.temperature : t < -100
      [] label = "Extreme heat" -> \E t \in r.temperature : t > 400
      [] label = "Strong winds" -> \E w \in r.wind_speed : w > 200
      [] label = "Heavy rain" -> \E x \in r.rain_3h : x > 100
      [] OTHER -> \E x \in r.snow_3h : x > 100

ShownBy(r, label) ==
    CASE label \in {"Extreme cold", "Extreme heat"} -> r.temperature
      [] label = "Strong winds" -> r.wind_speed
      [] label = "Heavy rain" -> r.rain_3h
      [] OTHER -> r.snow_3h

\* C12: the description of every event a run emits lists the labels of
\* the predicates its record matches, each once and no other, in the
\* order cold, heat, wind, rain, snow; each clause shows the matching
\* value with one decimal; and no description is empty.
C12_OneClausePerMatch ==
    RunReturned =>
        \A ev \in BagToSet(EmittedEvents) :
            LET d == ev.event_description
                expected ==
                    SelectSeq(PredicateOrder,
                              LAMBDA label : MatchesLabel(ev.row, label))
            IN /\ [k \in DOMAIN d |-> d[k].label] = expected
               /\ d # <<>>
               /\ \A k \in DOMAIN d :
                     {d[k].value} = {Format1f(v) : v \in ShownBy(ev.row, d[k].label)}

\* C12 witness: a run emitted an event whose record matches cold, wind,
\* rain and snow, described by these four clauses in this order, and an
\* event with the single clause of extreme heat at 45.0.
C12_Witness ==
    /\ RunReturned
    /\ \E ev \in BagToSet(EmittedEvents) :
          [k \in DOMAIN ev.event_description |-> ev.event_description[k].label]
              = <<"Extreme cold", "Strong winds", "Heavy rain", "Heavy snow">>
    /\ \E ev \in BagToSet(EmittedEvents) :
          ev.event_description =
              <<[label |-> "Extreme heat",
                 value |-> [minus |-> FALSE, whole |-> 45, tenth |-> 0],
                 unit |-> "C"]>>

\* C13: end to end on an empty store.  A run for the single city
\* "Testville,tv" whose forecast response holds one slot with temperature
\* 45.0, wind 5, no rain and no snow, and in which no file or store error
\* occurs, ends with exactly one forecast row, exactly one
\* daily_aggregates row, whose max_temp is 45.0, and exactly one
\* extreme_weather_events row, whose description is the single clause
\* "Extreme heat: 45.0" with unit C.
C13_EndToEnd ==
    (pc = "done" /\ faults = 0 /\ Fetched("forecast", Testville)) =>
        /\ Len(forecast) = 1
        /\ forecast[1].temperature = {450}
        /\ forecast[1].wind_speed = {50}
        /\ forecast[1].rain_3h = {0}
        /\ forecast[1].snow_3h = {0}
        /\ BagCardinality(daily_aggregates) = 1
        /\ \A row \in BagToSet(daily_aggregates) : row.max_temp = {450}
        /\ BagCardinality(extreme_weather_events) = 1
        /\ \A ev \in BagToSet(extreme_weather_events) :
              ev.event_description =
                  <<[label |-> "Extreme heat",
                     value |-> [minus |-> FALSE, whole |-> 45, tenth |-> 0],
                     unit |-> "C"]>>

\* C13 witness: the test run finished without any error, the forecast
\* fetched and loaded, and the three tables hold one row each.
C13_Witness ==
    /\ mode = "test"
    /\ pc = "done"
    /\ faults = 0
    /\ Cities = <<Testville>>
    /\ Fetched("forecast", Testville)
    /\ Recorded("forecast", Testville)
    /\ Happened("load", "forecast", PathOf("forecast", Testville))
    /\ Len(forecast) = 1
    /\ BagCardinality(daily_aggregates) = 1
    /\ BagCardinality(extreme_weather_events) = 1

\* The document or entry has an empty weather list.
EmptyWeatherList(e) == "weather" \in DOMAIN e /\ e.weather = <<>>

\* The document or entry lacks its rain or its snow block.
LacksPrecipitation(e) == "rain" \notin DOMAIN e \/ "snow" \notin DOMAIN e

\* The rows of forecast from position off + 1 on are those of the
\* entries of list, in order, with 0 where a rain or snow block is absent.
LoadedAt(off, list, t) ==
    \A k \in DOMAIN list :
        LET r == forecast[off + k]
            e == list[k]
        IN /\ r.retrieved_at = {t}
           /\ r.forecast_time = FromTimestamp(Get(e, "dt", 0))
           /\ "rain" \notin DOMAIN e => r.rain_3h = {0}
           /\ "snow" \notin DOMAIN e => r.snow_3h = {0}

\* C14: an observation or forecast entry without a rain or a snow block
\* is loaded with 0 in the precipitation column, never null; and such an
\* artifact's load fails only when a store error occurs or a weather list
\* is empty, never for the missing block.
C14_MissingPrecipitationIsZero ==
    /\ \A i \in DOMAIN current_weather :
          current_weather[i].rain_1h # None /\ current_weather[i].snow_1h # None
    /\ \A i \in DOMAIN forecast :
          forecast[i].rain_3h # None /\ forecast[i].snow_3h # None
    /\ \A p \in OpsPaths("current") :
          LET d == files[p]
          IN /\ Happened("load", "current", p) =>
                   \E i \in DOMAIN current_weather :
                       LET r == current_weather[i]
                       IN /\ r.retrieved_at = {p.timestamp}
                          /\ "rain" \notin DOMAIN d => r.rain_1h = {0}
                          /\ "snow" \notin DOMAIN d => r.snow_1h = {0}
             /\ (LacksPrecipitation(d) /\ Happened("load_failed", "current", p))
                   => faults > 0 \/ EmptyWeatherList(d)
    /\ \A p \in OpsPaths("forecast") :
          LET list == files[p].list
          IN /\ Happened("load", "forecast", p) =>
                   \E off \in 0..(Len(forecast) - Len(list)) :
                       LoadedAt(off, list, p.timestamp)
             /\ ((\E k \in DOMAIN list : LacksPrecipitation(list[k]))
                    /\ Happened("load_failed", "forecast", p))
                   => faults > 0 \/ \E k \in DOMAIN list : EmptyWeatherList(list[k])

\* C14 witness: without any store error, an observation without rain and
\* snow blocks and a forecast artifact with an entry without them were
\* loaded, and their rows hold 0.
C14_Witness ==
    /\ faults = 0
    /\ \E p \in OpsPaths("current") :
          /\ "rain" \notin DOMAIN files[p]
          /\ "snow" \notin DOMAIN files[p]
          /\ Happened("load", "current", p)
          /\ \E i \in DOMAIN current_weather :
                /\ current_weather[i].retrieved_at = {p.timestamp}
                /\ current_weather[i].rain_1h = {0}
                /\ current_weather[i].snow_1h = {0}
    /\ \E p \in OpsPaths("forecast") :
          /\ Happened("load", "forecast", p)
          /\ \E k \in DOMAIN files[p].list : LacksPrecipitation(files[p].list[k])
          /\ \E i \in DOMAIN forecast :
                /\ forecast[i].retrieved_at = {p.timestamp}
                /\ forecast[i].temperature = None
                /\ forecast[i].rain_3h = {0}
                /\ forecast[i].snow_3h = {0}

\* The loader was called on the artifact and handed control back.
LoadEnded(kind, p) ==
    Happened("load", kind, p) \/ Happened("load_failed", kind, p)

\* C15 as stated: an artifact in which nested blocks or their members
\* are absent or empty is still loaded: when no store error occurs, every
\* load of it commits its rows, with null in the columns of what is
\* missing, together with its raw_data_files row.
C15_Original ==
    faults = 0 =>
        /\ \A p \in OpsPaths("current") :
              LET d == files[p]
              IN LoadEnded("current", p) =>
                    /\ ~Happened("load_failed", "current", p)
                    /\ \E i \in DOMAIN current_weather :
                          LET r == current_weather[i]
                          IN /\ r.retrieved_at = {p.timestamp}
                             /\ Get(d, "weather", <<>>) = <<>> => r.weather_main = None
                             /\ "main" \notin DOMAIN d => r.temperature = None
                             /\ "wind" \notin DOMAIN d => r.wind_speed = None
                             /\ "sys" \notin DOMAIN d => r.country = None
                    /\ \E j \in DOMAIN raw_data_files : raw_data_files[j].file_path = p
        /\ \A p \in OpsPaths("forecast") :
              LoadEnded("forecast", p) =>
                  /\ ~Happened("load_failed", "forecast", p)
                  /\ \E j \in DOMAIN raw_data_files : raw_data_files[j].file_path = p

\* The daily step of the transformation run in hand (or of the run that
\* has just returned) has stored its rows.
DailyStored == pc \in {"anomalies", "extreme"} \/ RunReturned

\* The rows that step appended to daily_aggregates.
EmittedDaily == daily_aggregates (-) snap.daily_aggregates

\* The forecast records of the group a daily row stands for.
MembersOf(row) ==
    {i \in DOMAIN forecast :
        /\ forecast[i].city_name = row.city_name
        /\ forecast[i].country = row.country
        /\ forecast[i].forecast_time.day = row.date}

\* C16: the daily aggregation partitions the forecast table.  Every
\* record belongs to the group of exactly one emitted row, every emitted
\* row is emitted once and stands for a non-empty group, the groups of
\* one city and date hold together as many records as the table has for
\* that city and date, and a row's min_temp and max_temp are the least
\* and the greatest temperature of its members (null when none has one).
C16_DailyPartition ==
    DailyStored =>
        LET rows == BagToSet(EmittedDaily)
        IN /\ \A i \in DOMAIN forecast :
                 Cardinality({row \in rows : i \in MembersOf(row)}) = 1
           /\ \A row \in rows :
                 /\ CopiesIn(row, EmittedDaily) = 1
                 /\ MembersOf(row) # {}
                 /\ LET temps == UNION {forecast[i].temperature : i \in MembersOf(row)}
                    IN /\ (row.min_temp = None) <=> (temps = {})
                       /\ (row.max_temp = None) <=> (temps = {})
                       /\ \A m \in row.min_temp :
                             m \in temps /\ \A t \in temps : m <= t
                       /\ \A m \in row.max_temp :
                             m \in temps /\ \A t \in temps : m >= t
           /\ \A a, b \in rows : a # b => MembersOf(a) \cap MembersOf(b) = {}
           /\ \A i \in DOMAIN forecast :
                 LET same == {j \in DOMAIN forecast :
                                 /\ forecast[j].city_name = forecast[i].city_name
                                 /\ forecast[j].forecast_time.day
                                        = forecast[i].forecast_time.day}
                     groups == {row \in rows :
                                   /\ row.city_name = forecast[i].city_name
                                   /\ row.date = forecast[i].forecast_time.day}
                 IN UNION {MembersOf(row) : row \in groups} = same

\* C16 witness: the daily step ran over a table of several groups: one
\* of two records with temperatures 40.1 and 45.0, and one holding a
\* record without temperature.
C16_Witness ==
    /\ DailyStored
    /\ Cardinality(BagToSet(EmittedDaily)) >= 2
    /\ \E row \in BagToSet(EmittedDaily) :
          /\ Cardinality(MembersOf(row)) = 2
          /\ row.min_temp = {401}
          /\ row.max_temp = {450}
    /\ \E row \in BagToSet(EmittedDaily) :
          \E i \in MembersOf(row) : forecast[i].temperature = None

\* The anomalies step of the transformation run in hand (or of the run
\* that has just returned) has stored its rows.
AnomaliesStored == pc = "extreme" \/ RunReturned

\* The rows that step appended to temperature_anomalies.
EmittedAnomalies == temperature_anomalies (-) snap.temperature_anomalies

\* The records of the city of record i, the city being identified as in
\* the daily aggregates, by name and country.
SameCity(i) ==
    {j \in DOMAIN forecast :
        /\ forecast[j].city_name = forecast[i].city_name
        /\ forecast[j].country = forecast[i].country}

\* The anomaly row of record i, its mean taken over the records in S.
AnomalyRowOver(i, S) ==
    LET avg == Avg(forecast, S, "temperature")
    IN [city_name |-> forecast[i].city_name, country |-> forecast[i].country,
        forecast_time |-> forecast[i].forecast_time,
        temperature |-> forecast[i].temperature,
        city_avg_temp |-> avg,
        temp_anomaly |-> Anomaly(forecast[i].temperature, avg)]

\* C17 as stated: a run emits one anomaly row for every forecast record
\* of the store, whose anomaly is the record's temperature minus the mean
\* temperature over all records of its city (name and country).
C17_Original ==
    AnomaliesStored =>
        LET rowOf(i) == AnomalyRowOver(i, SameCity(i))
        IN /\ BagCardinality(EmittedAnomalies) = Len(forecast)
           /\ \A i \in DOMAIN forecast :
                 CopiesIn(rowOf(i), EmittedAnomalies)
                     = Cardinality({j \in DOMAIN forecast : rowOf(j) = rowOf(i)})

\* run_transformations is at one of its three steps.
Transforming == pc \in {"daily", "anomalies", "extreme"}

\* C18: the aggregator is read-only over the base tables and
\* raw_data_files is append-only.  A step of run_transformations, whether
\* it stores or raises, leaves current_weather, forecast and
\* raw_data_files as they are; and every step of the program leaves the
\* committed raw_data_files rows in place, adding rows at the end at most.
C18_BaseTablesReadOnly ==
    [][ /\ Transforming => UNCHANGED dbVars
        /\ Len(raw_data_files') >= Len(raw_data_files)
        /\ SubSeq(raw_data_files', 1, Len(raw_data_files)) = raw_data_files
      ]_vars

\* C18 witness: a transformation run returned over non-empty base
\* tables, which are as the run found them, while the derived tables
\* were written.
C18_Witness ==
    /\ RunReturned
    /\ current_weather # <<>>
    /\ forecast # <<>>
    /\ Len(raw_data_files) >= 2
    /\ current_weather = snap.current_weather
    /\ forecast = snap.forecast
    /\ raw_data_files = snap.raw_data_files
    /\ daily_aggregates # snap.daily_aggregates

\* C19 as stated: connections and transactions are scoped to one unit of
\* work.  Whenever no artifact load is in progress (every unit has handed
\* control back, by returning or by raising), no connection is open and
\* no transaction holds pending rows; and the unit at work holds one
\* connection at most.
C19_Original ==
    /\ ~ld.active => conns = 0 /\ ld.rows = <<>>
    /\ ld.active => conns = 1

====
